---- MODULE Spec2Model ----
(***************************************************************************)
(* Model of flv/reader.go: the FLV container reader (ReadHeader, ReadTag), *)
(* the buffered peek / lazy-skip fileReader underneath it, the bufio and   *)
(* io.LimitedReader behaviour it relies on, and the byte-order codec.      *)
(*                                                                         *)
(* Two readers are run side by side over the same input bytes and the same *)
(* caller operations: rd["seeker"] wraps a source that also implements     *)
(* io.ReadSeeker (r.s != nil), rd["stream"] a plain io.Reader (r.s = nil). *)
(* Offsets are 0-based as in the Go code; TLA+ sequences are 1-based.      *)
(*                                                                         *)
(* Spec is the reader under its public operations; SpecFault is the same   *)
(* reader over a seekable source whose Seek fails, with reader(n) also     *)
(* called directly; SpecCodec is the timestamp codec on its own.           *)
(***************************************************************************)
EXTENDS Integers, Sequences, FiniteSets, TLC

\* ------------------------------------------------------------------ bounds
\* size of the bufio buffer (bufio's default is 4096, its minimum 16)
BufSize == 16
\* largest number of tags in an input
MaxTags == 2
\* largest number of ReadHeader / ReadTag calls made out of the order
\* "ReadHeader once, then ReadTag repeatedly"
MaxStray == 2

\* ------------------------------------------------------- program constants
\* the 3 signature bytes "FLV" read as a 24-bit big-endian number
signature == 4607062
\* bytes peeked by ReadHeader
HeaderLen == 9
\* bytes peeked by ReadTag: 4 (previous tag size) + 11 (tag header)
TagRegion == 15
\* the only supported version
Version == 1

Min(a, b) == IF a < b THEN a ELSE b
Byte(v) == v % 256
\* b[i:] of the Go code (i is 0-based)
Slice(b, i) == SubSeq(b, i + 1, Len(b))
\* b[i] of the Go code (i is 0-based)
At(b, i) == b[i + 1]

\* ------------------------------------------------------------------- codec
getInt24(b) == At(b, 2) + At(b, 1) * 256 + At(b, 0) * 65536

getUint24(b) == At(b, 2) + At(b, 1) * 256 + At(b, 0) * 65536

putUint24(v) == << Byte(v \div 65536), Byte(v \div 256), Byte(v) >>

\* An int64 v is held as two limbs, v = hi * 2^24 + lo with lo in 0..2^24-1
\* (TLC's integers stop at 2^31-1): v>>24 is hi, v's low 24 bits lo.
I64(hi, lo) == [hi |-> hi, lo |-> lo]

\* mutant: the extension byte taken as the first, most significant byte
getTime_BigEndian(b) == I64(At(b, 0), At(b, 3) + At(b, 2) * 256 + At(b, 1) * 65536)

getTime(b) == I64(At(b, 3), At(b, 2) + At(b, 1) * 256 + At(b, 0) * 65536)

\* mutant: the extension byte written first, as putUint32 would
putTime_BigEndian(v) == << Byte(v.hi), Byte(v.lo \div 65536), Byte(v.lo \div 256), Byte(v.lo) >>

putTime(v) == << Byte(v.lo \div 65536), Byte(v.lo \div 256), Byte(v.lo), Byte(v.hi) >>

\* (header lengths below 2^31 only: b[0] < 128 in every input of the model)
getUint32(b) == At(b, 3) + At(b, 2) * 256 + At(b, 1) * 65536 + At(b, 0) * 16777216

putUint32(v) == << Byte(v \div 16777216), Byte(v \div 65536), Byte(v \div 256), Byte(v) >>

\* ------------------------------------------------------------------ inputs
VARIABLES input,    \* the bytes of the source, fixed at construction
          chunk,    \* the most bytes one Read of the source returns
          shape,    \* how input was built: [hd, tags, trail]
          rd,       \* rd[k]: the fileReader over the source of kind k
          res,      \* res[k]: what the last operation on rd[k] returned
          gh,       \* gh[k]: history of rd[k] the properties refer to
          phase,    \* "start", "body" (ReadHeader was the first call), "off"
          ntag,     \* ReadTag calls made in phase "body" (saturating)
          stray,    \* ReadHeader/ReadTag calls made in or into phase "off"
          codec     \* the timestamp round trip: [pc, v, b, out]

vars == << input, chunk, shape, rd, res, gh, phase, ntag, stray, codec >>
readerVars == << input, chunk, shape, rd, res, gh, phase, ntag, stray >>

Kinds == {"seeker", "stream"}

FLV == << 70, 76, 86 >>
XXX == << 88, 88, 88 >>

Hdr(sig, ver, flags, L) == [sig |-> sig, ver |-> ver, flags |-> flags, L |-> L]

\* header lengths: exact, a little more, more than the buffer holds, and
\* less than the 9 bytes a header has
Headers ==
    { Hdr(FLV, Version, 0, HeaderLen), Hdr(FLV, Version, 5, HeaderLen),
      Hdr(FLV, Version, 4, 0), Hdr(FLV, Version, 4, HeaderLen - 1),
      Hdr(FLV, Version, 255, HeaderLen + 2),
      Hdr(FLV, Version, 1, HeaderLen + BufSize + 5),
      Hdr(XXX, Version, 5, HeaderLen), Hdr(FLV, 2, 5, HeaderLen + 2) }

\* have: the payload bytes the input really holds (= Size unless truncated)
T(type, size, time, stream, have) ==
    [Type |-> type, Size |-> size, Time |-> time, Stream |-> stream, have |-> have]

TagShort == T(9, 9, I64(1, 131844), 0, 9)
TagLong == T(8, BufSize + 4, I64(0, 0), 0, BufSize + 4)
TagEmpty == T(18, 0, I64(255, 65535), 658188, 0)
\* declares 0x010203 payload bytes but the input ends after two of them
TagCut == T(9, 66051, I64(128, 16777215), 1, 2)

FullTags == {TagShort, TagLong, TagEmpty}

\* each kind of tag at most once, the truncated one only last
IsTagList(ts) ==
    /\ \A i \in 1..Len(ts) : (ts[i] \in FullTags) \/ (i = Len(ts) /\ ts[i] = TagCut)
    /\ \A i, j \in 1..Len(ts) : ts[i] = ts[j] => i = j

TagLists ==
    { ts \in UNION { [1..n -> FullTags \cup {TagCut}] : n \in 0..MaxTags } :
        IsTagList(ts) }

PayloadByte(i, j) == 128 + ((29 * i + j) % 100)

HeaderBytes(h) ==
    h.sig \o << h.ver, h.flags >> \o putUint32(h.L)
          \o [j \in 1..(h.L - HeaderLen) |-> 240 + (j % 10)]

\* the 4-byte previous-tag-size field in front of tag i
PrevSize(ts, i) == IF i = 1 THEN 0 ELSE 11 + ts[i - 1].Size

TagBytes(ts, i) ==
    putUint32(PrevSize(ts, i)) \o << ts[i].Type >> \o putUint24(ts[i].Size)
        \o putTime(ts[i].Time) \o putUint24(ts[i].Stream)
        \o [j \in 1..ts[i].have |-> PayloadByte(i, j)]

RECURSIVE BodyBytes(_, _)
BodyBytes(ts, i) ==
    IF i > Len(ts) THEN << >> ELSE TagBytes(ts, i) \o BodyBytes(ts, i + 1)

Build(sh) ==
    HeaderBytes(sh.hd) \o BodyBytes(sh.tags, 1)
        \o (IF sh.trail /\ Len(sh.tags) > 0
            THEN putUint32(11 + sh.tags[Len(sh.tags)].Size)
            ELSE IF sh.trail THEN putUint32(0) ELSE << >>)

\* offset of tag i's 15-byte region in the input built from sh
RECURSIVE TagOffset(_, _)
TagOffset(sh, i) ==
    IF i = 1 THEN Len(HeaderBytes(sh.hd))
    ELSE TagOffset(sh, i - 1) + TagRegion + sh.tags[i - 1].have

WellFormed(sh) ==
    /\ sh.hd.sig = FLV /\ sh.hd.ver = Version /\ sh.hd.L >= HeaderLen
    /\ \A i \in 1..Len(sh.tags) : sh.tags[i].have = sh.tags[i].Size

\* ------------------------------------------------------------------ source
\* A fileReader st is
\* [seekable, nopos, pos, buf, berr, N, l, rdset, seeks, grants]:
\*   seekable  r.s != nil
\*   pos       offset of the source r.r (the next byte a Read returns)
\*   buf       the unread bytes held by the bufio.Reader r.b
\*   berr      the error the bufio.Reader has stored ("nil" if none)
\*   N         r.l.N, the pending-skip count shared with the payload stream
\*   l         which io.LimitedReader r.l points to
\*   rdset     the offsets the source has returned through Read so far
\*   seeks     the offsets of the Seek calls the source has received during
\*             the current ReadHeader / ReadTag / stream Read call
\*   nopos     the source implements io.Seeker but has no position to move
\*             (a pipe or terminal behind an *os.File): every Seek fails
\*   grants    the values r.l.N had, during the current call, each time
\*             next called r.b.Peek or reader was about to return r.l

\* r.r.Read(p) with len(p) = n > 0: at most chunk bytes, io.EOF at the end
SrcRead(st, n) ==
    IF st.pos >= Len(input)
    THEN [s |-> st, bytes |-> << >>, err |-> "EOF"]
    ELSE LET m == Min(Min(n, chunk), Len(input) - st.pos)
         IN  [s |-> [st EXCEPT !.pos = @ + m,
                               !.rdset = @ \cup (st.pos .. (st.pos + m - 1))],
              bytes |-> SubSeq(input, st.pos + 1, st.pos + m),
              err |-> "nil"]

\* r.s.Seek(off, io.SeekCurrent): moving past the end is allowed; a source
\* without a position refuses and stays where it is
SrcSeek(st, off) ==
    IF st.nopos
    THEN [s |-> [st EXCEPT !.seeks = Append(@, off)], err |-> "ESPIPE"]
    ELSE [s |-> [st EXCEPT !.pos = @ + off, !.seeks = Append(@, off)], err |-> "nil"]

\* ------------------------------------------------------------------- bufio
\* Each call whose result is used more than once is handed to a helper as an
\* argument: X(st) == X_rest(Y(st)) is "r := Y(st); ...rest of X...".

\* (*bufio.Reader).fill after its Read of the source returned r
fill_store(r) ==
    IF r.err # "nil" THEN [r.s EXCEPT !.berr = r.err]
    ELSE [r.s EXCEPT !.buf = @ \o r.bytes]

\* (*bufio.Reader).fill: one Read of the source into the free space
fill(st) == fill_store(SrcRead(st, BufSize - Len(st.buf)))

\* the fill loop of (*bufio.Reader).Peek
RECURSIVE PeekFill(_, _)
PeekFill(st, n) ==
    IF Len(st.buf) < n /\ Len(st.buf) < BufSize /\ st.berr = "nil"
    THEN PeekFill(fill(st), n)
    ELSE st

\* (*bufio.Reader).Peek after its fill loop left the reader as f
Peek_result(f, n) ==
    IF Len(f.buf) < n
    THEN [s |-> [f EXCEPT !.berr = "nil"], bytes |-> f.buf,
          err |-> IF f.berr = "nil" THEN "ErrBufferFull" ELSE f.berr]
    ELSE [s |-> f, bytes |-> SubSeq(f.buf, 1, n), err |-> "nil"]

\* (*bufio.Reader).Peek(n)
Peek(st, n) == Peek_result(PeekFill(st, n), n)

\* the loop of (*bufio.Reader).Discard with remain bytes still to drop
\* (DiscardLoop), and one round of it on the reader f, filled if it was empty
RECURSIVE DiscardLoop(_, _)
Discard_round(f, remain) ==
    LET k == Min(Len(f.buf), remain)
        g == [f EXCEPT !.buf = Slice(@, k)]
    IN  IF remain - k = 0 THEN [s |-> g, err |-> "nil"]
        ELSE IF f.berr # "nil" THEN [s |-> [g EXCEPT !.berr = "nil"], err |-> f.berr]
        ELSE DiscardLoop(g, remain - k)

DiscardLoop(st, remain) ==
    Discard_round(IF Len(st.buf) = 0 THEN fill(st) ELSE st, remain)

\* (*bufio.Reader).Discard(n)
Discard(st, n) ==
    IF n < 0 THEN [s |-> st, err |-> "ErrNegativeCount"]
    ELSE IF n = 0 THEN [s |-> st, err |-> "nil"]
    ELSE DiscardLoop(st, n)

\* (*bufio.Reader).Reset(r.r)
Reset(st) == [st EXCEPT !.buf = << >>, !.berr = "nil"]

\* (*bufio.Reader).Read copying up to n bytes out of the buffer
BufRead_copy(st, n) ==
    LET k == Min(n, Len(st.buf))
    IN  [s |-> [st EXCEPT !.buf = Slice(@, k)],
         bytes |-> SubSeq(st.buf, 1, k), err |-> "nil"]

\* (*bufio.Reader).Read on an empty buffer after its one Read of the source
\* returned r
BufRead_one(r, n) ==
    IF Len(r.bytes) = 0 THEN r
    ELSE BufRead_copy([r.s EXCEPT !.buf = r.bytes], n)

\* (*bufio.Reader).Read(p) with len(p) = n > 0
BufRead(st, n) ==
    IF Len(st.buf) > 0 THEN BufRead_copy(st, n)
    ELSE IF st.berr # "nil"
    THEN [s |-> [st EXCEPT !.berr = "nil"], bytes |-> << >>, err |-> st.berr]
    ELSE IF n >= BufSize THEN SrcRead(st, n)
    ELSE BufRead_one(SrcRead(st, BufSize), n)

\* mutant: the bytes the stream delivers are not taken off r.l.N
LimitedRead_count_NotShared(r) ==
    [s |-> r.s, bytes |-> r.bytes, err |-> r.err]

\* (*io.LimitedReader).Read after l.R.Read returned r: l.N -= n
LimitedRead_count(r) ==
    [s |-> [r.s EXCEPT !.N = @ - Len(r.bytes)], bytes |-> r.bytes, err |-> r.err]

\* (*io.LimitedReader).Read(p) with len(p) = n > 0, on r.l
LimitedRead(st, n) ==
    IF st.N <= 0 THEN [s |-> st, bytes |-> << >>, err |-> "EOF"]
    ELSE LimitedRead_count(BufRead(st, Min(n, st.N)))

\* -------------------------------------------------------------- fileReader
\* the io.LimitedReader newFileReader makes; NoStream is the nil io.Reader
TheLimitedReader == 1
NoStream == 0

newFileReader(k) ==
    [seekable |-> (k = "seeker"), nopos |-> FALSE,
     pos |-> 0, buf |-> << >>, berr |-> "nil",
     N |-> 0, l |-> TheLimitedReader, rdset |-> {}, seeks |-> << >>,
     grants |-> << >>]

\* bytes the bufio.Reader has handed on or dropped: the physical cursor
Consumed(st) == st.pos - Len(st.buf)
\* physical cursor plus pending-skip count
Cursor(st) == Consumed(st) + st.N

\* mutant: the seek branch keeps the stale buffer (no r.b.Reset)
validate_NoReset(st) ==
    IF st.N <= 0 THEN [s |-> st, err |-> "nil"]
    ELSE IF Len(st.buf) < st.N /\ st.seekable
         THEN SrcSeek([st EXCEPT !.N = 0], st.N - Len(st.buf))
         ELSE Discard([st EXCEPT !.N = 0], st.N)

\* mutant: no seek branch, the pending bytes are always read and discarded
validate_NoSeek(st) ==
    IF st.N <= 0 THEN [s |-> st, err |-> "nil"]
    ELSE Discard([st EXCEPT !.N = 0], st.N)

\* mutant: the seek forgets the bytes the dropped buffer had read ahead
validate_SeekAll(st) ==
    IF st.N <= 0 THEN [s |-> st, err |-> "nil"]
    ELSE IF Len(st.buf) < st.N /\ st.seekable
         THEN SrcSeek(Reset([st EXCEPT !.N = 0]), st.N)
         ELSE Discard([st EXCEPT !.N = 0], st.N)

\* mutant: the seek branch is also taken when the buffer holds exactly the
\* pending bytes (b <= n), a seek by zero
validate_SeekWhenEqual(st) ==
    IF st.N <= 0 THEN [s |-> st, err |-> "nil"]
    ELSE IF Len(st.buf) <= st.N /\ st.seekable
         THEN SrcSeek(Reset([st EXCEPT !.N = 0]), st.N - Len(st.buf))
         ELSE Discard([st EXCEPT !.N = 0], st.N)

\* mutant: the seek branch is taken whenever the source can seek
validate_SeekAlways(st) ==
    IF st.N <= 0 THEN [s |-> st, err |-> "nil"]
    ELSE IF st.seekable
         THEN SrcSeek(Reset([st EXCEPT !.N = 0]), st.N - Len(st.buf))
         ELSE Discard([st EXCEPT !.N = 0], st.N)

\* mutant: the discard branch leaves the count it has discarded in r.l.N
validate_KeepCount(st) ==
    IF st.N <= 0 THEN [s |-> st, err |-> "nil"]
    ELSE IF Len(st.buf) < st.N /\ st.seekable
         THEN SrcSeek(Reset([st EXCEPT !.N = 0]), st.N - Len(st.buf))
         ELSE Discard(st, st.N)

\* mutant: the seek branch does not zero the count
validate_SeekKeepsCount(st) ==
    IF st.N <= 0 THEN [s |-> st, err |-> "nil"]
    ELSE IF Len(st.buf) < st.N /\ st.seekable
         THEN SrcSeek(Reset(st), st.N - Len(st.buf))
         ELSE Discard([st EXCEPT !.N = 0], st.N)

\* b is Len(st.buf), n is st.N, and r.l.N = 0 comes before the branch
validate(st) ==
    IF st.N <= 0 THEN [s |-> st, err |-> "nil"]
    ELSE IF Len(st.buf) < st.N /\ st.seekable
         THEN SrcSeek(Reset([st EXCEPT !.N = 0]), st.N - Len(st.buf))
         ELSE Discard([st EXCEPT !.N = 0], st.N)

\* the reader at the moment a peek or a stream is granted
Granting(st) == [st EXCEPT !.grants = Append(@, st.N)]

\* mutant: the peeked bytes are not marked pending
next_mark_NoPending(p, n) ==
    IF p.err # "nil" THEN [s |-> p.s, bytes |-> << >>, err |-> p.err, at |-> -1]
    ELSE [s |-> p.s, bytes |-> p.bytes, err |-> "nil", at |-> Consumed(p.s)]

\* mutant: a short peek that got some bytes reports io.ErrUnexpectedEOF, as
\* io.ReadFull would
next_mark_UnexpectedEOF(p, n) ==
    IF p.err # "nil"
    THEN [s |-> p.s, bytes |-> << >>,
          err |-> IF p.err = "EOF" /\ Len(p.bytes) > 0 THEN "ErrUnexpectedEOF"
                  ELSE p.err,
          at |-> -1]
    ELSE [s |-> [p.s EXCEPT !.N = n], bytes |-> p.bytes, err |-> "nil",
          at |-> Consumed(p.s)]

\* mutant: a failed peek marks the bytes it did get as pending
next_mark_PendingOnError(p, n) ==
    IF p.err # "nil"
    THEN [s |-> [p.s EXCEPT !.N = Len(p.bytes)], bytes |-> << >>, err |-> p.err,
          at |-> -1]
    ELSE [s |-> [p.s EXCEPT !.N = n], bytes |-> p.bytes, err |-> "nil",
          at |-> Consumed(p.s)]

\* next after r.b.Peek(n) returned p; at: the input offset the bytes start at,
\* -1 when r.b.Peek failed and -2 when r.validate failed before it
next_mark(p, n) ==
    IF p.err # "nil" THEN [s |-> p.s, bytes |-> << >>, err |-> p.err, at |-> -1]
    ELSE [s |-> [p.s EXCEPT !.N = n], bytes |-> p.bytes, err |-> "nil",
          at |-> Consumed(p.s)]

\* next after r.validate() returned v
next_peek(v, n) ==
    IF v.err # "nil" THEN [s |-> v.s, bytes |-> << >>, err |-> v.err, at |-> -2]
    ELSE next_mark(Peek(Granting(v.s), n), n)

\* mutant: next peeks without resolving what is pending
next_NoValidate(st, n) == next_peek([s |-> st, err |-> "nil"], n)

next(st, n) == next_peek(validate(st), n)

\* mutant: a negative count is added too
skip_Unguarded(st, n) == [st EXCEPT !.N = @ + n]

skip(st, n) == IF n > 0 THEN [st EXCEPT !.N = @ + n] ELSE st

\* mutant: the stream is bounded one byte too far
reader_grant_OffByOne(v, n) ==
    IF v.err # "nil" THEN [s |-> v.s, l |-> NoStream, err |-> v.err]
    ELSE [s |-> [Granting(v.s) EXCEPT !.N = n + 1], l |-> v.s.l, err |-> "nil"]

\* mutant: every call returns a limited reader of its own, as
\* io.LimitReader(r.b, n) would
reader_grant_NewLimit(v, n) ==
    IF v.err # "nil" THEN [s |-> v.s, l |-> NoStream, err |-> v.err]
    ELSE [s |-> [Granting(v.s) EXCEPT !.N = n],
          l |-> TheLimitedReader + 1 + Consumed(v.s), err |-> "nil"]

\* reader after r.validate() returned v; l is the stream returned
reader_grant(v, n) ==
    IF v.err # "nil" THEN [s |-> v.s, l |-> NoStream, err |-> v.err]
    ELSE [s |-> [Granting(v.s) EXCEPT !.N = n], l |-> v.s.l, err |-> "nil"]

reader(st, n) == reader_grant(validate(st), n)

\* ------------------------------------------------------------------ Reader
NoHeader == [Flags |-> -1]
NoTag == [Type |-> -1, Size |-> -1, Time |-> I64(-1, -1), Stream |-> -1]

\* mutant: the whole header length is marked to skip, not the part beyond 9
ReadHeader_parse_SkipWholeLength(x) ==
    IF x.err # "nil" THEN [s |-> x.s, hdr |-> NoHeader, err |-> x.err, at |-> x.at]
    ELSE IF getUint24(Slice(x.bytes, 0)) # signature
    THEN [s |-> x.s, hdr |-> NoHeader, err |-> "format: incorrect signature", at |-> x.at]
    ELSE IF At(x.bytes, 3) # 1
    THEN [s |-> x.s, hdr |-> NoHeader, err |-> "format: unsupported version", at |-> x.at]
    ELSE [s |-> skip(x.s, getUint32(Slice(x.bytes, 5))),
          hdr |-> [Flags |-> At(x.bytes, 4)], err |-> "nil", at |-> x.at]

\* mutant: the version is checked before the signature
ReadHeader_parse_VersionFirst(x) ==
    IF x.err # "nil" THEN [s |-> x.s, hdr |-> NoHeader, err |-> x.err, at |-> x.at]
    ELSE IF At(x.bytes, 3) # 1
    THEN [s |-> x.s, hdr |-> NoHeader, err |-> "format: unsupported version", at |-> x.at]
    ELSE IF getUint24(Slice(x.bytes, 0)) # signature
    THEN [s |-> x.s, hdr |-> NoHeader, err |-> "format: incorrect signature", at |-> x.at]
    ELSE [s |-> skip(x.s, getUint32(Slice(x.bytes, 5)) - 9),
          hdr |-> [Flags |-> At(x.bytes, 4)], err |-> "nil", at |-> x.at]

\* ReadHeader after r.next(9) returned x (x.bytes is b)
ReadHeader_parse(x) ==
    IF x.err # "nil" THEN [s |-> x.s, hdr |-> NoHeader, err |-> x.err, at |-> x.at]
    ELSE IF getUint24(Slice(x.bytes, 0)) # signature
    THEN [s |-> x.s, hdr |-> NoHeader, err |-> "format: incorrect signature", at |-> x.at]
    ELSE IF At(x.bytes, 3) # 1
    THEN [s |-> x.s, hdr |-> NoHeader, err |-> "format: unsupported version", at |-> x.at]
    ELSE [s |-> skip(x.s, getUint32(Slice(x.bytes, 5)) - 9),
          hdr |-> [Flags |-> At(x.bytes, 4)], err |-> "nil", at |-> x.at]

ReadHeader(st) == ReadHeader_parse(next(st, HeaderLen))

\* the Tag literal of ReadTag, from the 15 peeked bytes b
ReadTag_tag(b) ==
    [Type |-> At(b, 4), Size |-> getInt24(Slice(b, 5)),
     Time |-> getTime(Slice(b, 8)), Stream |-> getUint24(Slice(b, 12))]

\* ReadTag after r.reader(tag.Size) returned d;
\* stream: whether a payload stream was returned, l: which
ReadTag_data(d, tag, at) ==
    IF d.err # "nil"
    THEN [s |-> d.s, tag |-> NoTag, stream |-> FALSE, l |-> NoStream,
          err |-> d.err, at |-> at]
    ELSE [s |-> d.s, tag |-> tag, stream |-> TRUE, l |-> d.l, err |-> "nil",
          at |-> at]

\* ReadTag after r.next(15) returned x
ReadTag_parse(x) ==
    IF x.err # "nil"
    THEN [s |-> x.s, tag |-> NoTag, stream |-> FALSE, l |-> NoStream,
          err |-> x.err, at |-> x.at]
    ELSE ReadTag_data(reader(x.s, getInt24(Slice(x.bytes, 5))), ReadTag_tag(x.bytes), x.at)

ReadTag(st) == ReadTag_parse(next(st, TagRegion))

\* ----------------------------------------------------------- the behaviour
\* how many bytes one Read of the source may return at most
Chunks == {5, BufSize}
\* len(p) of the caller's Read calls on the payload stream
ReadLens == {7, BufSize}
\* ReadTag calls counted in ntag
MaxCalls == MaxTags + 2

Shapes == [hd : Headers, tags : TagLists, trail : BOOLEAN]

NoResult == [op |-> "none", err |-> "nil", hdr |-> NoHeader, tag |-> NoTag,
             stream |-> FALSE, bytes |-> << >>]

\* gh[k]:
\*   region   input offset of the bytes the last ReadHeader/ReadTag peeked
\*   live     the last ReadHeader/ReadTag call was a ReadTag that returned a stream
\*   granted  some ReadTag has returned the stream r.l
\*   got      the bytes read from the stream since the last ReadHeader/ReadTag
\*   eof      a Read since the last ReadHeader/ReadTag reported end of stream
\*   size     the Size of the tag the last successful ReadTag returned
\*   c0,b0,n0 physical cursor, buffered bytes and pending-skip count at the
\*            start of the last ReadHeader/ReadTag
\*   p0       live at the start of the last ReadHeader/ReadTag: the pending
\*            bytes it had to skip were the unread rest of a payload
\*   vfail    the last ReadHeader/ReadTag returned the error of r.validate
\*   eofs     the ReadTag calls that have returned io.EOF (counted up to 2)
\*   arg      the n of the last direct call of reader(n)
\*   objs     the streams ReadTag and reader have returned so far
\*   g0       granted at the start of the last ReadHeader/ReadTag: the caller
\*            may hold a stream from an earlier call
\*   v0       vfail at the start of the last ReadHeader/ReadTag
NoHistory == [region |-> -1, live |-> FALSE, granted |-> FALSE, got |-> << >>,
              eof |-> FALSE, size |-> 0, c0 |-> 0, b0 |-> 0, n0 |-> 0, p0 |-> FALSE,
              vfail |-> FALSE, eofs |-> 0, arg |-> 0, objs |-> {}, g0 |-> FALSE,
              v0 |-> FALSE]

\* a call starts with empty logs of the source's seeks and of the grants
Call(st) == [st EXCEPT !.seeks = << >>, !.grants = << >>]

IdleCodec == [pc |-> "idle", v |-> I64(0, 0), b |-> << >>, out |-> I64(0, 0)]

Before(g, st) ==
    [g EXCEPT !.c0 = Consumed(st), !.b0 = Len(st.buf), !.n0 = st.N,
              !.p0 = g.live, !.g0 = g.granted, !.v0 = g.vfail,
              !.got = << >>, !.eof = FALSE]

\* what a ReadHeader/ReadTag that returned r adds to the history g
Peeked(g, r) ==
    [g EXCEPT !.region = IF r.at < 0 THEN -1 ELSE r.at, !.vfail = (r.at = -2)]

Init ==
    /\ shape \in Shapes
    /\ input = Build(shape)
    /\ chunk \in Chunks
    /\ rd = [k \in Kinds |-> newFileReader(k)]
    /\ res = [k \in Kinds |-> NoResult]
    /\ gh = [k \in Kinds |-> NoHistory]
    /\ phase = "start"
    /\ ntag = 0
    /\ stray = 0
    /\ codec = IdleCodec

\* the variables after ReadHeader returned r[k] on rd[k]
HeaderReturned(r) ==
    /\ rd' = [k \in Kinds |-> r[k].s]
    /\ res' = [k \in Kinds |->
                 [NoResult EXCEPT !.op = "ReadHeader", !.err = r[k].err,
                                  !.hdr = r[k].hdr]]
    /\ gh' = [k \in Kinds |->
                 [Peeked(Before(gh[k], rd[k]), r[k]) EXCEPT !.live = FALSE]]

DoReadHeader ==
    /\ phase = "start" \/ stray < MaxStray
    /\ HeaderReturned([k \in Kinds |-> ReadHeader(Call(rd[k]))])
    /\ phase' = IF phase = "start" THEN "body" ELSE "off"
    /\ stray' = IF phase = "start" THEN stray ELSE stray + 1
    /\ UNCHANGED << input, chunk, shape, ntag, codec >>

\* the variables after ReadTag returned r[k] on rd[k]
TagReturned(r) ==
    /\ rd' = [k \in Kinds |-> r[k].s]
    /\ res' = [k \in Kinds |->
                 [NoResult EXCEPT !.op = "ReadTag", !.err = r[k].err,
                                  !.tag = r[k].tag, !.stream = r[k].stream]]
    /\ gh' = [k \in Kinds |->
                 [Peeked(Before(gh[k], rd[k]), r[k]) EXCEPT
                     !.live = r[k].stream,
                     !.granted = @ \/ r[k].stream,
                     !.objs = @ \cup ({r[k].l} \ {NoStream}),
                     !.eofs = IF r[k].err = "EOF" THEN Min(@ + 1, 2) ELSE @,
                     !.size = IF r[k].stream THEN r[k].tag.Size ELSE @]]

DoReadTag ==
    /\ phase = "body" \/ stray < MaxStray
    /\ TagReturned([k \in Kinds |-> ReadTag(Call(rd[k]))])
    /\ phase' = IF phase = "start" THEN "off" ELSE phase
    /\ ntag' = IF phase = "body" THEN Min(ntag + 1, MaxCalls) ELSE ntag
    /\ stray' = IF phase = "body" THEN stray ELSE stray + 1
    /\ UNCHANGED << input, chunk, shape, codec >>

\* the variables after a Read of the stream returned r[k] on rd[k]
ReadReturned(r) ==
    /\ rd' = [k \in Kinds |-> r[k].s]
    /\ res' = [k \in Kinds |->
                 [NoResult EXCEPT !.op = "Read", !.err = r[k].err,
                                  !.bytes = r[k].bytes]]
    /\ gh' = [k \in Kinds |->
                 [gh[k] EXCEPT !.got = @ \o r[k].bytes,
                               !.eof = @ \/ (r[k].err = "EOF")]]

\* the caller reads from the stream r.l with a buffer of n bytes
DoRead(n) ==
    /\ \E k \in Kinds : gh[k].granted
    /\ ReadReturned([k \in Kinds |-> LimitedRead(Call(rd[k]), n)])
    /\ UNCHANGED << input, chunk, shape, phase, ntag, stray, codec >>

Next ==
    \/ DoReadHeader
    \/ DoReadTag
    \/ \E n \in ReadLens : DoRead(n)

Spec == Init /\ [][Next]_vars

\* --------------------------------------- the fileReader under other callers
\* The same reader where the seekable source is one whose Seek fails, and
\* where code of the package calls reader(n) itself, with any n.
ReaderArgs == {-1, 3}

\* declares 0x010203 payload bytes, the input ends after more of them than
\* the buffer and a tag's region take
TagHalf == T(9, 66051, I64(0, 0), 1, BufSize + TagRegion + 4)

\* the inputs read here: a header of 9 bytes or of more than the buffer
\* holds, then nothing or one tag, short, longer than the buffer or truncated
FaultShapes ==
    [hd : {Hdr(FLV, Version, 0, HeaderLen), Hdr(FLV, Version, 1, HeaderLen + BufSize + 5)},
     tags : {<< >>, << TagShort >>, << TagLong >>, << TagCut >>, << TagHalf >>},
     trail : {FALSE}]

InitFault ==
    /\ shape \in FaultShapes
    /\ input = Build(shape)
    /\ chunk \in Chunks
    /\ rd = [k \in Kinds |-> [newFileReader(k) EXCEPT !.nopos = (k = "seeker")]]
    /\ res = [k \in Kinds |-> NoResult]
    /\ gh = [k \in Kinds |-> NoHistory]
    /\ phase = "start"
    /\ ntag = 0
    /\ stray = 0
    /\ codec = IdleCodec

\* the variables after reader(n) returned r[k] on rd[k]
StreamReturned(r, n) ==
    /\ rd' = [k \in Kinds |-> r[k].s]
    /\ res' = [k \in Kinds |->
                 [NoResult EXCEPT !.op = "reader", !.err = r[k].err,
                                  !.stream = (r[k].err = "nil")]]
    /\ gh' = [k \in Kinds |->
                 [Before(gh[k], rd[k]) EXCEPT
                     !.region = -1, !.vfail = (r[k].err # "nil"), !.arg = n,
                     !.live = (r[k].err = "nil"),
                     !.granted = @ \/ (r[k].err = "nil"),
                     !.objs = @ \cup ({r[k].l} \ {NoStream}),
                     !.size = IF r[k].err = "nil" THEN n ELSE @]]

\* a caller inside the package asks for a stream of n bytes
DoReader(n) ==
    /\ stray < MaxStray
    /\ StreamReturned([k \in Kinds |-> reader(Call(rd[k]), n)], n)
    /\ phase' = "off"
    /\ stray' = stray + 1
    /\ UNCHANGED << input, chunk, shape, ntag, codec >>

NextFault ==
    \/ DoReadHeader
    \/ DoReadTag
    \/ \E n \in ReadLens : DoRead(n)
    \/ \E n \in ReaderArgs : DoReader(n)

SpecFault == InitFault /\ [][NextFault]_vars

\* ------------------------------------------- the timestamp codec on its own
\* int64 values around the edges of the 32-bit encoding: hi is v>>24 and lo
\* the low 24 bits, so v is within 0..2^32-1 exactly when hi is within 0..255
TimeHis == {-1, 0, 1, 127, 128, 255, 256}
TimeLos == {0, 1, 255, 256, 66051, 65535, 65536, 16777215}

InitCodec ==
    /\ shape = [hd |-> Hdr(FLV, Version, 0, HeaderLen), tags |-> << >>, trail |-> FALSE]
    /\ input = Build(shape)
    /\ chunk = BufSize
    /\ rd = [k \in Kinds |-> newFileReader(k)]
    /\ res = [k \in Kinds |-> NoResult]
    /\ gh = [k \in Kinds |-> NoHistory]
    /\ phase = "start"
    /\ ntag = 0
    /\ stray = 0
    /\ codec \in [pc : {"start"}, v : [hi : TimeHis, lo : TimeLos],
                  b : {<< 0, 0, 0, 0 >>}, out : {I64(0, 0)}]

\* putTime(b, v) on a 4-byte slice
CodecPut ==
    /\ codec.pc = "start"
    /\ codec' = [codec EXCEPT !.pc = "put", !.b = putTime(codec.v)]
    /\ UNCHANGED readerVars

\* getTime(b) on the slice putTime filled
CodecGet ==
    /\ codec.pc = "put"
    /\ codec' = [codec EXCEPT !.pc = "done", !.out = getTime(codec.b)]
    /\ UNCHANGED readerVars

NextCodec == CodecPut \/ CodecGet

SpecCodec == InitCodec /\ [][NextCodec]_vars

\* holds under Spec; a direct reader(n) with n < 0 makes r.l.N negative
TypeOK ==
    /\ phase \in {"start", "body", "off"}
    /\ ntag \in 0..MaxCalls
    /\ \A k \in Kinds : rd[k].N >= 0 /\ Len(rd[k].buf) <= BufSize

\* ------------------------------------------------------------- properties
NTags == Len(shape.tags)
\* the caller has followed "ReadHeader once, then ReadTag repeatedly"
InOrder == phase = "body"
\* the last ReadTag was the i-th of an in-order run over a well-formed input
AtTag(i) == InOrder /\ WellFormed(shape) /\ ntag = i /\ i \in 1..NTags
\* the offset where tag i's payload ends
PayloadEnd(i) == TagOffset(shape, i) + TagRegion + shape.tags[i].Size
\* input[from, to) with 0-based offsets
Bytes(from, to) == SubSeq(input, from + 1, to)

\* C1: over a well-formed input read in order, the i-th ReadTag succeeds and
\* returns the i-th tag's size, having taken its region from the i-th tag's
\* offset; after it, and after every read of any part of the payload, the
\* logical cursor (physical cursor + pending-skip count) is the end of tag
\* i's payload, on both kinds of source.
C1_TagsInOrder ==
    \A k \in Kinds : \A i \in 1..NTags :
        AtTag(i) =>
            /\ res[k].op = "ReadTag" =>
                  /\ res[k].err = "nil" /\ res[k].stream
                  /\ res[k].tag.Size = shape.tags[i].Size
                  /\ gh[k].region = TagOffset(shape, i)
            /\ Cursor(rd[k]) = PayloadEnd(i)

\* the second ReadTag succeeded on the seekable source after part of the first
\* payload had been read, and the rest was skipped by a seek
C1_Witness ==
    /\ AtTag(2) /\ res["seeker"].op = "ReadTag" /\ res["seeker"].err = "nil"
    /\ gh["seeker"].n0 > 0 /\ gh["seeker"].n0 < shape.tags[1].Size
    /\ Len(rd["seeker"].seeks) = 1

\* C2: the bytes read from the stream ReadTag returned are, in order, the
\* input bytes that follow the tag's 15-byte region, never more than Size of
\* them; once the stream reports its end they are exactly those Size bytes
\* (when the input holds that many).
C2_PayloadExact ==
    \A k \in Kinds :
        gh[k].live =>
            LET start == gh[k].region + TagRegion
                n == gh[k].size
            IN  /\ Len(gh[k].got) <= n
                /\ gh[k].got = Bytes(start, start + Len(gh[k].got))
                /\ (gh[k].eof /\ start + n <= Len(input)) => Len(gh[k].got) = n
                /\ (res[k].op = "Read" /\ Len(gh[k].got) = n /\ res[k].bytes = << >>)
                      => res[k].err = "EOF"

\* a payload longer than the buffer was read to its end, another tag follows
C2_Witness ==
    /\ gh["stream"].live /\ gh["stream"].eof /\ gh["stream"].size > BufSize
    /\ Len(gh["stream"].got) = gh["stream"].size
    /\ gh["stream"].region + TagRegion + gh["stream"].size + TagRegion <= Len(input)

GoodHeader == shape.hd.sig = FLV /\ shape.hd.ver = Version

\* C3: after a successful first ReadHeader of a header declaring L > 9, the
\* first ReadTag takes its 15 bytes from input offset L (when the input holds
\* them), on both kinds of source.
C3_HeaderLengthSkip ==
    \A k \in Kinds :
        (/\ InOrder /\ ntag = 1 /\ res[k].op = "ReadTag"
         /\ GoodHeader /\ shape.hd.L > HeaderLen
         /\ shape.hd.L + TagRegion <= Len(input))
        => /\ res[k].err = "nil"
           /\ gh[k].region = shape.hd.L
           /\ gh[k].c0 + gh[k].n0 = shape.hd.L
           /\ res[k].tag.Type = At(input, shape.hd.L + 4)

\* the extra header bytes were more than the buffer held and were skipped by
\* one seek on the seekable source
C3_Witness ==
    /\ InOrder /\ ntag = 1 /\ res["seeker"].op = "ReadTag" /\ GoodHeader
    /\ shape.hd.L > HeaderLen /\ res["seeker"].err = "nil"
    /\ gh["seeker"].b0 < shape.hd.L
    /\ rd["seeker"].seeks = << shape.hd.L - gh["seeker"].b0 >>
    /\ gh["seeker"].region = shape.hd.L /\ gh["stream"].region = shape.hd.L

\* C4: a first ReadHeader over (signature, version 1, flags f, length 9)
\* succeeds, returns flags f and leaves the logical cursor at offset 9.
C4_ValidHeader ==
    \A k \in Kinds :
        (/\ InOrder /\ ntag = 0 /\ res[k].op = "ReadHeader"
         /\ GoodHeader /\ shape.hd.L = HeaderLen)
        => /\ res[k].err = "nil"
           /\ res[k].hdr = [Flags |-> shape.hd.flags]
           /\ Cursor(rd[k]) = HeaderLen

C4_Witness ==
    /\ InOrder /\ ntag = 0 /\ res["seeker"].op = "ReadHeader" /\ GoodHeader
    /\ shape.hd.L = HeaderLen /\ shape.hd.flags = 5
    /\ res["seeker"].hdr = [Flags |-> 5] /\ Cursor(rd["seeker"]) = 9

\* C5: a ReadHeader that finds 9 bytes at the logical cursor fails with the
\* signature error if bytes 0-2 are not the signature, else with the version
\* error if byte 3 is not 1, else returns the Header of byte 4; when it fails
\* it returns no Header and only the 9 peeked bytes are pending.
C5_HeaderFormat ==
    \A k \in Kinds :
        LET c == gh[k].c0 + gh[k].n0
            b == Bytes(c, c + HeaderLen)
        IN  (res[k].op = "ReadHeader" /\ c + HeaderLen <= Len(input)) =>
              IF SubSeq(b, 1, 3) # FLV
              THEN /\ res[k].err = "format: incorrect signature"
                   /\ res[k].hdr = NoHeader /\ rd[k].N = HeaderLen
                   /\ res[k].tag = NoTag /\ ~res[k].stream
              ELSE IF At(b, 3) # Version
              THEN /\ res[k].err = "format: unsupported version"
                   /\ res[k].hdr = NoHeader /\ rd[k].N = HeaderLen
                   /\ res[k].tag = NoTag /\ ~res[k].stream
              ELSE res[k].err = "nil" /\ res[k].hdr = [Flags |-> At(b, 4)]

\* a header with a wrong version and a length above 9 was refused
C5_Witness ==
    /\ phase = "body" /\ ntag = 0 /\ res["stream"].op = "ReadHeader"
    /\ shape.hd.sig = FLV /\ shape.hd.ver # Version /\ shape.hd.L > HeaderLen
    /\ res["stream"].err = "format: unsupported version"
    /\ rd["stream"].N = HeaderLen

\* C6: over a well-formed input read in order, every ReadTag after the last
\* tag returns io.EOF, on both kinds of source.
C6_EndOfInput ==
    \A k \in Kinds :
        (/\ InOrder /\ WellFormed(shape) /\ ntag > NTags /\ res[k].op = "ReadTag")
        => res[k].err = "EOF" /\ res[k].tag = NoTag /\ ~res[k].stream

\* the last payload was left partly unread and 4 bytes follow it
C6_Witness ==
    /\ InOrder /\ WellFormed(shape) /\ NTags > 0 /\ ntag = NTags + 1
    /\ shape.trail /\ res["seeker"].op = "ReadTag" /\ res["seeker"].err = "EOF"
    /\ res["stream"].err = "EOF"
    /\ gh["seeker"].p0 /\ gh["seeker"].n0 > 0
    /\ gh["seeker"].n0 < shape.tags[NTags].Size

\* the last call was a ReadTag on the seekable source that had to skip the
\* unread rest, longer than the buffer, of the payload before it, and the
\* input holds the next tag's region
BigSkip ==
    /\ res["seeker"].op = "ReadTag" /\ gh["seeker"].p0
    /\ gh["seeker"].n0 > BufSize
    /\ gh["seeker"].c0 + gh["seeker"].n0 + TagRegion <= Len(input)

\* the offsets of the payload bytes that call discarded
Discarded == gh["seeker"].c0 .. (gh["seeker"].c0 + gh["seeker"].n0 - 1)
\* those of them the bufio.Reader held when the call began
Buffered0 == gh["seeker"].c0 .. (gh["seeker"].c0 + gh["seeker"].b0 - 1)

\* C7 as stated: the ReadTag succeeds, the source received a seek and none
\* of the discarded payload bytes has been read from the source.
C7_Original ==
    BigSkip => /\ res["seeker"].err = "nil"
               /\ Len(rd["seeker"].seeks) = 1
               /\ rd["seeker"].rdset \cap Discarded = {}

\* C7 (amended): the ReadTag succeeds, the source received exactly one seek,
\* forward by the pending count minus the bytes buffered, and none of the
\* discarded payload bytes beyond those already buffered has been read from
\* the source; the buffered ones had been read ahead.
C7_SeekInsteadOfRead ==
    BigSkip => /\ res["seeker"].err = "nil"
               /\ rd["seeker"].seeks = << gh["seeker"].n0 - gh["seeker"].b0 >>
               /\ gh["seeker"].n0 - gh["seeker"].b0 > 0
               /\ rd["seeker"].rdset \cap (Discarded \ Buffered0) = {}
               /\ Buffered0 \subseteq rd["seeker"].rdset

\* a wholly unread payload longer than the buffer was skipped, one of its
\* bytes having been read ahead into the buffer
C7_Witness ==
    /\ BigSkip /\ InOrder /\ WellFormed(shape)
    /\ gh["seeker"].n0 = BufSize + 4 /\ gh["seeker"].b0 > 0
    /\ res["seeker"].err = "nil"

\* C8 as stated: both readers return identical results at every step.
C8_Original == res["seeker"] = res["stream"]

IsPrefix(a, b) == Len(a) <= Len(b) /\ a = SubSeq(b, 1, Len(a))

\* C8 (amended): over the same input and the same caller operations the two
\* readers return the same Header, Tag, stream and error from every
\* ReadHeader and ReadTag, taken from the same input offset, and their
\* payload streams deliver the same bytes in the same order; one Read of the
\* stream may return fewer bytes on one than on the other, so the bytes read
\* since the last ReadHeader/ReadTag are a prefix one of the other's.
C8_SameResults ==
    /\ res["seeker"].op = res["stream"].op
    /\ res["seeker"].op \in {"ReadHeader", "ReadTag"} =>
          /\ res["seeker"] = res["stream"]
          /\ gh["seeker"].region = gh["stream"].region
          /\ res["seeker"].err = "nil" => Cursor(rd["seeker"]) = Cursor(rd["stream"])
    /\ \/ IsPrefix(gh["seeker"].got, gh["stream"].got)
       \/ IsPrefix(gh["stream"].got, gh["seeker"].got)

\* the second tag was returned alike by both after the seekable source had
\* sought and the other had discarded, leaving different read-ahead
C8_Witness ==
    /\ AtTag(2) /\ res["seeker"].op = "ReadTag" /\ res["seeker"].err = "nil"
    /\ res["seeker"] = res["stream"]
    /\ Len(rd["seeker"].seeks) = 1 /\ rd["stream"].seeks = << >>
    /\ Len(rd["seeker"].buf) # Len(rd["stream"].buf)

\* C9: a successful ReadTag returns, for the 15 bytes b at the offset it
\* peeked, Type = b[4], Size = b[5]<<16 | b[6]<<8 | b[7], Time = b[8]<<16 |
\* b[9]<<8 | b[10] | b[11]<<24 and Stream = b[12]<<16 | b[13]<<8 | b[14];
\* Size is within 0..2^24-1.
C9_TagDecode ==
    \A k \in Kinds :
        (res[k].op = "ReadTag" /\ res[k].err = "nil") =>
            LET o == gh[k].region
                t == res[k].tag
            IN  /\ o >= 0 /\ o + TagRegion <= Len(input)
                /\ t.Type = At(input, o + 4)
                /\ t.Size = At(input, o + 5) * 65536 + At(input, o + 6) * 256
                              + At(input, o + 7)
                /\ t.Time.lo = At(input, o + 8) * 65536 + At(input, o + 9) * 256
                                 + At(input, o + 10)
                /\ t.Time.hi = At(input, o + 11)
                /\ t.Stream = At(input, o + 12) * 65536 + At(input, o + 13) * 256
                                + At(input, o + 14)
                /\ t.Size \in 0..16777215
                /\ AtTag(ntag) =>
                      t = [Type |-> shape.tags[ntag].Type, Size |-> shape.tags[ntag].Size,
                           Time |-> shape.tags[ntag].Time,
                           Stream |-> shape.tags[ntag].Stream]

\* a tag with all three size bytes, the extension byte above 127 and a
\* non-zero stream id was decoded
C9_Witness ==
    /\ InOrder /\ res["stream"].op = "ReadTag" /\ res["stream"].err = "nil"
    /\ res["stream"].tag = [Type |-> 9, Size |-> 66051, Time |-> I64(128, 16777215),
                            Stream |-> 1]
    /\ At(input, gh["stream"].region + 5) = 1 /\ At(input, gh["stream"].region + 11) = 128

\* C10: for v within 0..2^32-1 (hi within 0..255), getTime of the 4 bytes
\* putTime wrote is v, the bytes being the low 24 bits big-endian followed
\* by bits 24-31.
C10_TimeRoundTrip ==
    (codec.pc \in {"put", "done"} /\ codec.v.hi \in 0..255) =>
        /\ codec.b = << codec.v.lo \div 65536, (codec.v.lo \div 256) % 256,
                        codec.v.lo % 256, codec.v.hi >>
        /\ codec.pc = "done" => codec.out = codec.v

\* 2^32-1 was written and read back
C10_Witness ==
    /\ codec.pc = "done" /\ codec.v = I64(255, 16777215)
    /\ codec.b = << 255, 255, 255, 255 >> /\ codec.out = codec.v

\* every Seek the source received in the current call moved it forward
SeeksForward(st) == \A i \in 1..Len(st.seeks) : st.seeks[i] > 0

\* C11 as stated: over every operation the logical cursor (physical cursor +
\* pending-skip count) does not decrease, and every seek is forward.
C11_Original ==
    [][\A k \in Kinds : /\ Cursor(rd'[k]) >= Cursor(rd[k])
                        /\ SeeksForward(rd'[k])]_vars

\* C11 (amended): over every operation the physical cursor does not decrease
\* and every seek the source receives is relative to its position and
\* strictly forward; the logical cursor does not decrease either, except in
\* a ReadHeader/ReadTag that returns the error of validate: there the
\* pending-skip count has been dropped and the logical cursor falls back to
\* the physical cursor.
C11_StrictlyForward ==
    [][\A k \in Kinds :
          /\ Consumed(rd'[k]) >= Consumed(rd[k])
          /\ SeeksForward(rd'[k])
          /\ \/ Cursor(rd'[k]) >= Cursor(rd[k])
             \/ /\ gh'[k].vfail /\ res'[k].err # "nil"
                /\ rd'[k].N = 0 /\ Cursor(rd'[k]) = Consumed(rd'[k])]_vars

\* the rest of a payload was skipped by a forward seek on one source and
\* could not be discarded on the other, whose logical cursor fell back
C11_Witness ==
    /\ res["seeker"].op = "ReadTag" /\ gh["seeker"].p0
    /\ Len(rd["seeker"].seeks) = 1 /\ rd["seeker"].seeks[1] > 0
    /\ gh["stream"].vfail
    /\ Cursor(rd["stream"]) < gh["stream"].c0 + gh["stream"].n0

\* C12: once a ReadTag has returned io.EOF, every ReadTag returns io.EOF with
\* no Tag and no stream and leaves the pending-skip count at zero, whatever
\* calls are made in between, on both kinds of source.
C12_EndAbsorbing ==
    \A k \in Kinds :
        (gh[k].eofs > 0 /\ res[k].op = "ReadTag") =>
            /\ res[k].err = "EOF" /\ res[k].tag = NoTag /\ ~res[k].stream
            /\ rd[k].N = 0 /\ ~gh[k].live

\* a second ReadTag returned io.EOF after all tags of a well-formed input
\* that ends with 4 more bytes, which stay in the buffer
C12_Witness ==
    /\ InOrder /\ WellFormed(shape) /\ NTags > 0 /\ shape.trail
    /\ ntag = NTags + 2 /\ res["stream"].op = "ReadTag"
    /\ gh["stream"].eofs = 2 /\ gh["seeker"].eofs = 2
    /\ res["stream"].err = "EOF" /\ Len(rd["stream"].buf) = 4

\* the last call was a ReadHeader/ReadTag on rd[k] whose first validate had
\* pending bytes to skip and returned no error
Resolved(k) ==
    /\ res[k].op \in {"ReadHeader", "ReadTag"}
    /\ gh[k].n0 > 0 /\ ~gh[k].vfail

\* the physical cursor right after that validate: where the peek took its
\* bytes or, if the peek failed, where the call left the reader
AfterValidate(k) == IF gh[k].region >= 0 THEN gh[k].region ELSE Consumed(rd[k])

\* C13: a validate that succeeds with p > 0 bytes pending and b buffered
\* leaves the physical cursor exactly p further; the source receives a seek,
\* one, by p - b, exactly when b < p and it can seek, and then none of the
\* bytes beyond the buffer is read; otherwise all p bytes have passed
\* through the buffer.
C13_ValidateAdvance ==
    \A k \in Kinds :
        Resolved(k) =>
            /\ AfterValidate(k) = gh[k].c0 + gh[k].n0
            /\ IF gh[k].b0 < gh[k].n0 /\ rd[k].seekable
               THEN /\ rd[k].seeks = << gh[k].n0 - gh[k].b0 >>
                    /\ rd[k].rdset \cap ((gh[k].c0 + gh[k].b0) ..
                                           (gh[k].c0 + gh[k].n0 - 1)) = {}
               ELSE /\ rd[k].seeks = << >>
                    /\ (gh[k].c0 .. (gh[k].c0 + gh[k].n0 - 1)) \subseteq rd[k].rdset

\* both branches at once: more bytes pending than buffered, a seek by the
\* difference on one source and a discard through the buffer on the other
C13_Witness ==
    /\ Resolved("seeker") /\ Resolved("stream")
    /\ gh["seeker"].b0 > 0 /\ gh["seeker"].b0 < gh["seeker"].n0
    /\ gh["stream"].b0 > 0 /\ gh["stream"].b0 < gh["stream"].n0
    /\ rd["seeker"].seeks = << gh["seeker"].n0 - gh["seeker"].b0 >>
    /\ rd["stream"].seeks = << >>
    /\ gh["seeker"].region = gh["seeker"].c0 + gh["seeker"].n0
    /\ gh["stream"].region = gh["stream"].c0 + gh["stream"].n0

\* C14: every time next took bytes with r.b.Peek and every time reader handed
\* out the stream, the pending-skip count was zero: validate had resolved
\* whatever a peek, a skip or a payload grant had left pending.
C14_ResolvedBeforeGrant ==
    \A k \in Kinds : \A i \in 1..Len(rd[k].grants) : rd[k].grants[i] = 0

\* a ReadTag peeked and granted a stream after skipping the unread rest of
\* the payload before it
C14_Witness ==
    /\ res["stream"].op = "ReadTag" /\ res["stream"].stream
    /\ gh["stream"].p0 /\ gh["stream"].n0 > 0
    /\ rd["stream"].grants = << 0, 0 >> /\ rd["seeker"].grants = << 0, 0 >>

\* C15: while the last ReadHeader/ReadTag call is a ReadTag that returned the
\* stream for a payload of n bytes and the caller has read k bytes from it,
\* the pending-skip count is n - k with 0 <= k <= n; the next ReadHeader or
\* ReadTag starts with exactly that count pending and, unless its validate
\* fails, peeks exactly that many bytes further on.
C15_SharedCounter ==
    [][\A k \in Kinds :
          /\ gh'[k].live =>
                /\ Len(gh'[k].got) <= gh'[k].size
                /\ rd'[k].N = gh'[k].size - Len(gh'[k].got)
          /\ (gh[k].live /\ res'[k].op \in {"ReadHeader", "ReadTag"}) =>
                /\ gh'[k].n0 = gh[k].size - Len(gh[k].got)
                /\ ~gh'[k].vfail =>
                      AfterValidate(k)' = gh[k].c0' + gh[k].size
                                            - Len(gh[k].got)]_vars

\* part of a payload was read, the rest is pending, and the next tag
\* follows in the input
C15_Witness ==
    /\ gh["stream"].live /\ res["stream"].op = "Read"
    /\ Len(gh["stream"].got) > 0 /\ Len(gh["stream"].got) < gh["stream"].size
    /\ rd["stream"].N = gh["stream"].size - Len(gh["stream"].got)
    /\ rd["seeker"].N = gh["seeker"].size - Len(gh["seeker"].got)
    /\ Cursor(rd["stream"]) + TagRegion <= Len(input)

\* two next(9) calls on rd[k] with nothing in between: a ReadHeader that
\* peeked its 9 bytes and marked no further skip, followed at once by a
\* ReadHeader whose peek got 9 bytes too
PeekedTwice(k) ==
    /\ res[k].op = "ReadHeader" /\ gh[k].region >= 0 /\ rd[k].N = HeaderLen
    /\ res'[k].op = "ReadHeader" /\ gh'[k].region >= 0

\* C16 as stated: the second peek returns the bytes the first returned.
C16_Original ==
    [][\A k \in Kinds : PeekedTwice(k) => gh'[k].region = gh[k].region]_vars

\* C16 (amended): a peek does not consume the bytes it returns (the physical
\* cursor stays where they start and they are only marked pending), but a
\* second peek resolves them first and returns the 9 bytes that follow them.
C16_SecondPeekMovesOn ==
    [][\A k \in Kinds :
          PeekedTwice(k) =>
              /\ Consumed(rd[k]) = gh[k].region
              /\ gh'[k].n0 = HeaderLen
              /\ gh'[k].region = gh[k].region + HeaderLen
              /\ Consumed(rd'[k]) = gh'[k].region]_vars

\* a header with a wrong signature was refused and ReadHeader, called again
\* at once, took the 9 bytes after it
C16_Witness ==
    /\ res["stream"].op = "ReadHeader" /\ shape.hd.sig = XXX /\ stray = 1
    /\ gh["stream"].c0 = 0 /\ gh["stream"].n0 = HeaderLen
    /\ gh["stream"].region = HeaderLen /\ gh["seeker"].region = HeaderLen

C18_ShortHeaderLength ==
    \A k \in Kinds :
        (InOrder /\ GoodHeader /\ shape.hd.L <= HeaderLen) =>
            /\ (ntag = 0 /\ res[k].op = "ReadHeader") =>
                  /\ res[k].err = "nil"
                  /\ res[k].hdr = [Flags |-> shape.hd.flags]
                  /\ rd[k].N = HeaderLen /\ Consumed(rd[k]) = 0
            /\ (ntag = 1 /\ res[k].op = "ReadTag"
                  /\ HeaderLen + TagRegion <= Len(input)) =>
                  /\ res[k].err = "nil"
                  /\ gh[k].c0 + gh[k].n0 = HeaderLen
                  /\ gh[k].region = HeaderLen
                  /\ res[k].tag.Type = At(input, HeaderLen + 4)

\* the header declared length 0 and the first tag was read from offset 9
C18_Witness ==
    /\ InOrder /\ GoodHeader /\ shape.hd.L = 0 /\ ntag = 1
    /\ res["seeker"].op = "ReadTag" /\ res["seeker"].err = "nil"
    /\ res["stream"].err = "nil"
    /\ gh["seeker"].n0 = HeaderLen /\ gh["seeker"].region = HeaderLen
    /\ gh["stream"].region = HeaderLen
    /\ res["seeker"].tag.Type = shape.tags[1].Type

\* C19: all the streams ReadTag has returned are one object; after a ReadTag
\* that succeeded when a stream had been returned before, what is read from
\* it are the bytes of this tag's payload, and each read is taken off the
\* shared count, so the logical cursor stays at the end of this payload and
\* the ReadHeader/ReadTag that follows takes its bytes from there.
C19_OneStream ==
    \A k \in Kinds :
        /\ gh[k].granted => gh[k].objs = {TheLimitedReader}
        /\ (gh[k].live /\ gh[k].g0) =>
              /\ gh[k].got = Bytes(gh[k].region + TagRegion,
                                   gh[k].region + TagRegion + Len(gh[k].got))
              /\ rd[k].N = gh[k].size - Len(gh[k].got)
              /\ Cursor(rd[k]) = gh[k].region + TagRegion + gh[k].size
        /\ (res[k].op \in {"ReadHeader", "ReadTag"} /\ gh[k].p0 /\ gh[k].g0
              /\ ~gh[k].vfail) =>
              AfterValidate(k) = gh[k].c0 + gh[k].n0

\* the first payload was left partly unread, the second tag was returned
\* and bytes of its payload were read from the stream
C19_Witness ==
    /\ AtTag(2) /\ gh["stream"].live /\ gh["stream"].g0 /\ gh["stream"].p0
    /\ gh["stream"].n0 > 0 /\ res["stream"].op = "Read"
    /\ Len(gh["stream"].got) > 0
    /\ gh["stream"].got = Bytes(TagOffset(shape, 2) + TagRegion,
                                TagOffset(shape, 2) + TagRegion + Len(gh["stream"].got))
    /\ gh["stream"].objs = {TheLimitedReader}

\* C20: a ReadHeader/ReadTag whose validate failed returns that error and no
\* Header, Tag or stream, with the pending-skip count at zero; if the Seek
\* failed the buffer is empty and the source has not moved, if the Discard
\* failed the source is at its end. The ReadHeader/ReadTag called after it
\* has nothing pending to skip: it peeks where the reader was left.
C20_FailedSkipDropped ==
    \A k \in Kinds :
        /\ (res[k].op \in {"ReadHeader", "ReadTag"} /\ gh[k].vfail) =>
              /\ res[k].err # "nil" /\ res[k].hdr = NoHeader
              /\ res[k].tag = NoTag /\ ~res[k].stream /\ ~gh[k].live
              /\ rd[k].N = 0 /\ rd[k].buf = << >>
              /\ IF rd[k].seeks # << >>
                 THEN /\ res[k].err = "ESPIPE"
                      /\ rd[k].seeks = << gh[k].n0 - gh[k].b0 >>
                      /\ rd[k].pos = gh[k].c0 + gh[k].b0
                 ELSE /\ res[k].err = "EOF"
                      /\ rd[k].pos = Len(input)
                      /\ rd[k].pos < gh[k].c0 + gh[k].n0
        /\ (res[k].op \in {"ReadHeader", "ReadTag"} /\ gh[k].v0) =>
              /\ gh[k].n0 = 0 /\ ~gh[k].vfail /\ rd[k].seeks = << >>
              /\ gh[k].region >= 0 => gh[k].region = gh[k].c0

\* the payload is longer than the input: the Seek over it failed on one
\* source and the Discard on the other; of the ReadTag calls made next, one
\* took 15 bytes from where the source stood, inside the payload, and the
\* other found the end of the input
C20_Witness ==
    /\ shape.tags = << TagHalf >> /\ res["seeker"].op = "ReadTag"
    /\ gh["seeker"].v0 /\ gh["stream"].v0
    /\ gh["seeker"].region = gh["seeker"].c0
    /\ gh["seeker"].region > shape.hd.L + TagRegion
    /\ res["seeker"].err = "nil" /\ rd["seeker"].N > 0
    /\ res["stream"].err = "EOF" /\ gh["stream"].c0 = Len(input)
    /\ rd["stream"].N = 0

====
